---------------------------- MODULE Spec2Model ----------------------------
(***************************************************************************)
(* Model of apps/gemma_client.py: the Gemma MCP client.                    *)
(*                                                                         *)
(* A text (a model response, a prompt, a line of input) is a sequence of   *)
(* one-character strings, except that a JSON string literal, a JSON number *)
(* and a plain word are each one element of the sequence (a lexeme).       *)
(***************************************************************************)
EXTENDS Integers, Sequences, FiniteSets, TLC

(***************************************************************************)
(* Bounds of the model.                                                    *)
(***************************************************************************)
\* segments a text handed to parse_response alone is composed of
MaxSegs == 2
\* lines the chat loop forwards to process_user_prompt in one run
MaxTurns == 2
\* characters of each text handed to augmented_model_call alone
MaxPromptLen == 2

Min(S) == CHOOSE x \in S : \A y \in S : x <= y

(***************************************************************************)
(* TOOL_PATTERN and re.search (gemma_client.py line 19, line 46).          *)
(***************************************************************************)
\* the backtick character (a TLA+ string cannot hold one)
BT == "BT"

\* the literal that opens TOOL_PATTERN: three backticks, json, a newline
PatOpen == <<BT, BT, BT, "j", "s", "o", "n", "\n">>

\* the literal that closes TOOL_PATTERN: a newline and two backticks
PatClose == <<"\n", BT, BT>>

\* the literal lit occurs in s at position i
MatchAt(s, i, lit) ==
    /\ i >= 1
    /\ i + Len(lit) - 1 <= Len(s)
    /\ \A k \in 1..Len(lit) : s[i + k - 1] = lit[k]

\* '.' of a pattern compiled without re.DOTALL: any character but a newline
Dot(c) == c # "\n"

\* s[a..b] is matched by '.*'
DotStar(s, a, b) == \A k \in a..b : Dot(s[k])

\* the positions at which the closing literal can start, for an opening
\* literal matched at i: the group (.*?) takes s[i+8 .. k-1]
CloseStarts(s, i) ==
    { k \in (i + Len(PatOpen))..Len(s) :
        /\ DotStar(s, i + Len(PatOpen), k - 1)
        /\ MatchAt(s, k, PatClose) }

NoMatch == [found |-> FALSE, group |-> <<>>]

\* re.search(TOOL_PATTERN, s): the leftmost start at which the pattern
\* matches, and there the shortest group (the quantifier is lazy)
ReSearch(s) ==
    LET starts == { i \in 1..Len(s) :
                      MatchAt(s, i, PatOpen) /\ CloseStarts(s, i) # {} }
    IN  IF starts = {} THEN NoMatch
        ELSE LET i == Min(starts)
                 k == Min(CloseStarts(s, i))
             IN  [found |-> TRUE,
                  group |-> SubSeq(s, i + Len(PatOpen), k - 1)]

(***************************************************************************)
(* json.loads (line 47).  A JSON value is [t, v]: t its type, v a string   *)
(* for a scalar and a function from keys to JSON values for an object.     *)
(***************************************************************************)
\* the JSON string literals of the model, each with the str it denotes
StrLex == {"\"city\"", "\"Paris\"", "\"unit\"", "\"C\"", "\"\"",
           "\"name\"", "\"other_tool\""}

StrVal(lex) ==
    CASE lex = "\"city\""  -> "city"
      [] lex = "\"Paris\"" -> "Paris"
      [] lex = "\"unit\""  -> "unit"
      [] lex = "\"C\""     -> "C"
      [] lex = "\"\""      -> ""
      [] lex = "\"name\""  -> "name"
      [] lex = "\"other_tool\"" -> "other_tool"

NumLex == {"0", "7"}

JStr(x) == [t |-> "str", v |-> x]
JNum(x) == [t |-> "num", v |-> x]
JNull == [t |-> "null", v |-> "null"]
JObj(f) == [t |-> "obj", v |-> f]
\* Python's None, as returned by parse_response when nothing is found
None == [t |-> "none", v |-> "none"]

EmptyMap == [x \in {} |-> JNull]

IsWs(c) == c \in {" ", "\n"}

RECURSIVE SkipWs(_, _)
SkipWs(s, i) ==
    IF i <= Len(s) /\ IsWs(s[i]) THEN SkipWs(s, i + 1) ELSE i

ParseFail == [ok |-> FALSE, val |-> JNull, next |-> 0]

\* d[key] = val, a later duplicate key replacing an earlier one
Put(map, key, val) ==
    [x \in (DOMAIN map) \cup {key} |-> IF x = key THEN val ELSE map[x]]

RECURSIVE ParseValue(_, _)
RECURSIVE ParseMembers(_, _, _)

\* the members of an object, from the key at j on, added to acc
ParseMembers(s, j, acc) ==
    IF j > Len(s) \/ s[j] \notin StrLex THEN ParseFail
    ELSE LET colon == SkipWs(s, j + 1)
         IN  IF colon > Len(s) \/ s[colon] # ":" THEN ParseFail
             ELSE LET member == ParseValue(s, SkipWs(s, colon + 1))
                  IN  IF ~member.ok THEN ParseFail
                      ELSE LET after == SkipWs(s, member.next)
                               members == Put(acc, StrVal(s[j]), member.val)
                           IN  IF after > Len(s) THEN ParseFail
                               ELSE IF s[after] = ","
                                    THEN ParseMembers(s, SkipWs(s, after + 1),
                                                      members)
                               ELSE IF s[after] = "}"
                                    THEN [ok |-> TRUE, val |-> JObj(members),
                                          next |-> after + 1]
                               ELSE ParseFail

\* the JSON value that starts at i
ParseValue(s, i) ==
    IF i > Len(s) THEN ParseFail
    ELSE IF s[i] \in StrLex
         THEN [ok |-> TRUE, val |-> JStr(StrVal(s[i])), next |-> i + 1]
    ELSE IF s[i] \in NumLex
         THEN [ok |-> TRUE, val |-> JNum(s[i]), next |-> i + 1]
    ELSE IF s[i] = "null"
         THEN [ok |-> TRUE, val |-> JNull, next |-> i + 1]
    ELSE IF s[i] = "{"
         THEN LET first == SkipWs(s, i + 1)
              IN  IF first <= Len(s) /\ s[first] = "}"
                  THEN [ok |-> TRUE, val |-> JObj(EmptyMap),
                        next |-> first + 1]
                  ELSE ParseMembers(s, first, EmptyMap)
    ELSE ParseFail

\* json.loads(s): ok is FALSE where json.loads raises JSONDecodeError
JsonLoads(s) ==
    LET top == ParseValue(s, SkipWs(s, 1))
    IN  IF top.ok /\ SkipWs(s, top.next) = Len(s) + 1
        THEN [ok |-> TRUE, val |-> top.val]
        ELSE [ok |-> FALSE, val |-> JNull]

\* what json.loads returns to Python: JSON null is None
PyVal(j) == IF j.t = "null" THEN None ELSE j

\* mutant of parse_response: a JSONDecodeError is swallowed and None returned
parse_response_swallows(text) ==
    LET tool_call == ReSearch(text)
    IN  IF tool_call.found /\ JsonLoads(tool_call.group).ok
        THEN [raised |-> FALSE,
              ret |-> PyVal(JsonLoads(tool_call.group).val)]
        ELSE [raised |-> FALSE, ret |-> None]

\* parse_response(text): raised is TRUE where json.loads raises; with no
\* match the function falls off its end and returns None
parse_response(text) ==
    LET tool_call == ReSearch(text)
    IN  IF tool_call.found
        THEN LET parsed_arg == JsonLoads(tool_call.group)
             IN  IF parsed_arg.ok
                 THEN [raised |-> FALSE, ret |-> PyVal(parsed_arg.val)]
                 ELSE [raised |-> TRUE, ret |-> None]
        ELSE [raised |-> FALSE, ret |-> None]

\* Python's truth value of what parse_response returned
Truthy(x) ==
    CASE x.t = "none" -> FALSE
      [] x.t = "null" -> FALSE
      [] x.t = "str"  -> x.v # ""
      [] x.t = "num"  -> x.v # "0"
      [] x.t = "obj"  -> DOMAIN x.v # {}

(***************************************************************************)
(* The texts the model endpoint may answer with.                           *)
(***************************************************************************)
FenceOpen == <<BT, BT, BT, "j", "s", "o", "n", "\n">>
Close3 == <<"\n", BT, BT, BT>>
Close2 == <<"\n", BT, BT>>
CloseNoNl == <<BT, BT, BT>>
Closers == {Close3, Close2, CloseNoNl}

PCity == <<"{", "\"city\"", ":", " ", "\"Paris\"", "}">>
PMulti == <<"{", "\n", "\"city\"", ":", "\"Paris\"", "\n", "}">>
PEmpty == <<"{", "}">>
PNoCity == <<"{", "\"unit\"", ":", "\"C\"", "}">>
PNested == <<"{", "\"city\"", ":", "{", "\"unit\"", ":", "7", "}", ",",
             "\"city\"", ":", "7", "}">>
PBad == <<"{", "\"city\"", "}">>
PBadMulti == <<"{", "\n", "\"city\"", "\n", "}">>
PNull == <<"null">>
PZero == <<"0">>
PStr == <<"\"Paris\"">>
PNamed == <<"{", "\"name\"", ":", "\"other_tool\"", ",",
            "\"city\"", ":", "\"Paris\"", "}">>
Payloads == {PCity, PMulti, PEmpty, PNoCity, PNested, PBad, PBadMulti,
             PNull, PZero, PStr, PNamed}

Block(p, c) == FenceOpen \o p \o c
Blocks == { Block(p, c) : p \in Payloads, c \in Closers }
PlainSegs == { <<"hi">>, <<BT>>, <<"\n">>, <<BT, BT, BT>> }
Segs == Blocks \cup PlainSegs

RECURSIVE Texts(_)
\* the texts made of at most n segments
Texts(n) ==
    IF n = 0 THEN { <<>> }
    ELSE LET T == Texts(n - 1)
         IN  T \cup { t \o g : t \in T, g \in Segs }

\* the first answers of the model endpoint in a turn
TurnResponses ==
    Segs
    \cup { Block(p, Close3) \o Block(q, Close3) :
             p \in {PCity, PBad, PMulti}, q \in {PCity, PNoCity, PBad} }
    \cup { <<"hi", "\n">> \o Block(p, c) \o <<"\n", "hi">> :
             p \in {PCity, PNoCity}, c \in {Close3, Close2} }

\* the second answers of the model endpoint in a turn
FinalResponses == { <<"sunny">>, Block(PCity, Close3) }

\* the texts the session serves for weather_prompt, and the tool's results
SystemPrompts == { <<"SYS">> }
ToolResults == { <<"Sunny">> }

\* the lines input() may return
UserLines == { <<"q">>, <<"Q">>, <<" ", "q", " ">>, <<"q", "u", "i", "t">>,
               <<>>, <<" ">>, <<"h", "i">> }

(***************************************************************************)
(* str.strip, str.lower and str.join (lines 154, 157, 145).                *)
(***************************************************************************)
RECURSIVE LStrip(_)
LStrip(s) == IF s # <<>> /\ IsWs(Head(s)) THEN LStrip(Tail(s)) ELSE s

RECURSIVE RStrip(_)
RStrip(s) ==
    IF s # <<>> /\ IsWs(s[Len(s)]) THEN RStrip(SubSeq(s, 1, Len(s) - 1))
    ELSE s

Strip(s) == RStrip(LStrip(s))

LowerChar(c) ==
    CASE c = "Q" -> "q"
      [] c = "U" -> "u"
      [] c = "I" -> "i"
      [] c = "T" -> "t"
      [] OTHER -> c

Lower(s) == [i \in 1..Len(s) |-> LowerChar(s[i])]

\* mutant of Join: the separator is written after the line, not between lines
JoinTerminated(sep, parts) ==
    IF parts = <<>> THEN <<>> ELSE parts[1] \o sep

RECURSIVE Join(_, _)
\* sep.join(parts)
Join(sep, parts) ==
    IF parts = <<>> THEN <<>>
    ELSE IF Len(parts) = 1 THEN parts[1]
    ELSE parts[1] \o sep \o Join(sep, Tail(parts))

\* the test of line 157
IsQuit(prompt) == Lower(prompt) = <<"q">>

\* mutant of CombinedPrompt: both texts are stripped before they are joined
CombinedPromptStripped(system_text, user_text) ==
    Strip(system_text) \o <<"\n">> \o Strip(user_text)

\* combined_prompt of augmented_model_call (line 42)
CombinedPrompt(system_text, user_text) ==
    system_text \o <<"\n">> \o user_text

\* the text of a JSON value placed in a prompt by the server
ValueText(j) == IF j.t \in {"str", "num"} THEN <<j.v>> ELSE <<"obj">>

\* the server's weather_response_prompt, its placeholders filled
WeatherResponsePrompt(city, weather) ==
    <<"city", ":">> \o ValueText(city) \o <<"weather", ":">> \o weather

(***************************************************************************)
(* The state.                                                              *)
(***************************************************************************)
VARIABLES
    pc,                  \* where main, chat_loop or process_user_prompt is
    session,             \* self.session: "none" or "open"
    exit_stack,          \* self.exit_stack: the contexts entered, in order
    acquired,            \* history: the contexts entered so far
    released,            \* history: the contexts exited so far
    cleanups,            \* history: calls of cleanup
    main_exc,            \* the exception leaving main, "none" if none
    turns,               \* history: lines forwarded to process_user_prompt
    user_prompt,         \* chat_loop's user_prompt
    exc,                 \* the exception caught at line 163, "none" if none
    out,                 \* what chat_loop printed last
    system_prompt,       \* locals of process_user_prompt
    model_response,
    function_call_json,
    weather_result,
    weather_prompt_text,
    final_text,
    response,            \* what process_user_prompt returned
    calls,               \* history: the external calls of this turn, in order
    gen_prompts,         \* history: the prompts given to the model this turn
    gen_returns,         \* history: the texts the model returned this turn
    tool_args,           \* history: the arguments of each call_tool this turn
    prompt_args,         \* history: arguments of weather_response_prompt
    extracted,           \* history: values parse_response returned this turn
    outcome,             \* history: how this turn ended, "none" if it has not
    in_flight,           \* the external calls sent and not yet answered
    prev_outcome         \* history: how the turn before this one ended

vars == <<pc, session, exit_stack, acquired, released, cleanups, main_exc,
          turns, user_prompt, exc, out, system_prompt, model_response,
          function_call_json, weather_result, weather_prompt_text,
          final_text, response, calls, gen_prompts, gen_returns, tool_args,
          prompt_args, extracted, outcome, in_flight, prev_outcome>>

mainVars == <<session, exit_stack, acquired, released, cleanups, main_exc>>
loopVars == <<turns, user_prompt, out>>
turnLocals == <<system_prompt, model_response, function_call_json,
                weather_result, weather_prompt_text, final_text, response>>
turnHistory == <<calls, gen_prompts, gen_returns, tool_args, prompt_args,
                 extracted, outcome>>

NoText == <<>>
NoOut == [kind |-> "none", text |-> NoText]

\* the locals and the history of a turn that has not started
FreshTurn ==
    /\ system_prompt = NoText
    /\ model_response = NoText
    /\ function_call_json = None
    /\ weather_result = NoText
    /\ weather_prompt_text = NoText
    /\ final_text = <<>>
    /\ response = NoText
    /\ calls = <<>>
    /\ gen_prompts = <<>>
    /\ gen_returns = <<>>
    /\ tool_args = <<>>
    /\ prompt_args = <<>>
    /\ extracted = <<>>
    /\ outcome = "none"

\* main, after client = MCPClient() (lines 55-58, 172)
Init ==
    /\ pc = "connect_stdio"
    /\ session = "none"
    /\ exit_stack = <<>>
    /\ acquired = <<>>
    /\ released = <<>>
    /\ cleanups = 0
    /\ main_exc = "none"
    /\ turns = 0
    /\ user_prompt = NoText
    /\ exc = "none"
    /\ out = NoOut
    /\ in_flight = {}
    /\ prev_outcome = "none"
    /\ FreshTurn

\* mutant of ResetTurn: final_text and the call history are kept on the
\* client from one turn to the next
ResetTurnKeepsHistory ==
    /\ system_prompt' = NoText
    /\ model_response' = NoText
    /\ function_call_json' = None
    /\ weather_result' = NoText
    /\ weather_prompt_text' = NoText
    /\ final_text' = final_text
    /\ response' = NoText
    /\ calls' = calls
    /\ gen_prompts' = <<>>
    /\ gen_returns' = <<>>
    /\ tool_args' = <<>>
    /\ prompt_args' = <<>>
    /\ extracted' = <<>>
    /\ outcome' = "none"

\* a new call of process_user_prompt: nothing is kept from the last one
ResetTurn ==
    /\ system_prompt' = NoText
    /\ model_response' = NoText
    /\ function_call_json' = None
    /\ weather_result' = NoText
    /\ weather_prompt_text' = NoText
    /\ final_text' = <<>>
    /\ response' = NoText
    /\ calls' = <<>>
    /\ gen_prompts' = <<>>
    /\ gen_returns' = <<>>
    /\ tool_args' = <<>>
    /\ prompt_args' = <<>>
    /\ extracted' = <<>>
    /\ outcome' = "none"

RECURSIVE Reverse(_)
Reverse(s) == IF s = <<>> THEN <<>> ELSE Append(Reverse(Tail(s)), Head(s))

(***************************************************************************)
(* main, connect_to_server and cleanup.                                    *)
(***************************************************************************)
\* the statements that await an external call, and the call each awaits
CallPcs == {"initialize", "connect_list_tools", "list_tools", "list_prompts",
            "get_prompt", "generate", "call_tool", "get_response_prompt",
            "generate_final"}

CallAt(at) ==
    CASE at = "initialize" -> "initialize"
      [] at = "connect_list_tools" -> "list_tools"
      [] at = "list_tools" -> "list_tools"
      [] at = "list_prompts" -> "list_prompts"
      [] at = "get_prompt" -> "get_prompt:weather_prompt"
      [] at = "generate" -> "generate"
      [] at = "call_tool" -> "call_tool:weather_tool"
      [] at = "get_response_prompt" -> "get_prompt:weather_response_prompt"
      [] at = "generate_final" -> "generate"

\* mutant of Send: list_tools and list_prompts are sent together and both
\* awaited afterwards
SendGathered ==
    /\ pc \in CallPcs
    /\ CallAt(pc) \notin in_flight
    /\ pc = "get_response_prompt" =>
         /\ function_call_json.t = "obj"
         /\ "city" \in DOMAIN function_call_json.v
    /\ in_flight' = in_flight \cup {CallAt(pc)}
                     \cup (IF pc = "list_tools" THEN {"list_prompts"} ELSE {})
    /\ UNCHANGED <<pc, session, exit_stack, acquired, released, cleanups,
                   main_exc, turns, user_prompt, exc, out, system_prompt,
                   model_response, function_call_json, weather_result,
                   weather_prompt_text, final_text, response, calls,
                   gen_prompts, gen_returns, tool_args, prompt_args,
                   extracted, outcome, prev_outcome>>

\* an await of an external call, first half: the call is sent, and the
\* coroutine is suspended until its answer comes.  At line 126 the arguments
\* are evaluated first: the call is sent only when function_call_json["city"]
\* did not raise
Send ==
    /\ pc \in CallPcs
    /\ CallAt(pc) \notin in_flight
    /\ pc = "get_response_prompt" =>
         /\ function_call_json.t = "obj"
         /\ "city" \in DOMAIN function_call_json.v
    /\ in_flight' = in_flight \cup {CallAt(pc)}
    /\ UNCHANGED <<pc, session, exit_stack, acquired, released, cleanups,
                   main_exc, turns, user_prompt, exc, out, system_prompt,
                   model_response, function_call_json, weather_result,
                   weather_prompt_text, final_text, response, calls,
                   gen_prompts, gen_returns, tool_args, prompt_args,
                   extracted, outcome, prev_outcome>>

\* second half: the answer of the call (a result or an exception) resumes
\* the coroutine
Receive(name) ==
    /\ name \in in_flight
    /\ in_flight' = in_flight \ {name}

\* mutant of MainRaise: main has no finally, the exception ends the process
MainRaiseNoFinally(kind) ==
    /\ main_exc' = kind
    /\ pc' = "exited"

\* an exception leaves connect_to_server or chat_loop: main's finally runs
MainRaise(kind) ==
    /\ main_exc' = kind
    /\ pc' = "cleanup"

\* line 68: enter stdio_client on the exit stack
ConnectStdio ==
    /\ pc = "connect_stdio"
    /\ \/ /\ exit_stack' = Append(exit_stack, "stdio")
          /\ acquired' = Append(acquired, "stdio")
          /\ pc' = "connect_session"
          /\ UNCHANGED main_exc
       \/ /\ MainRaise("stdio_client")
          /\ UNCHANGED <<exit_stack, acquired>>
    /\ UNCHANGED in_flight
    /\ UNCHANGED prev_outcome
    /\ UNCHANGED <<session, released, cleanups, loopVars, exc, turnLocals,
                   turnHistory>>

\* line 70: enter ClientSession on the exit stack, then set self.session
ConnectSession ==
    /\ pc = "connect_session"
    /\ \/ /\ exit_stack' = Append(exit_stack, "session")
          /\ acquired' = Append(acquired, "session")
          /\ session' = "open"
          /\ pc' = "initialize"
          /\ UNCHANGED main_exc
       \/ /\ MainRaise("ClientSession")
          /\ UNCHANGED <<exit_stack, acquired, session>>
    /\ UNCHANGED in_flight
    /\ UNCHANGED prev_outcome
    /\ UNCHANGED <<released, cleanups, loopVars, exc, turnLocals,
                   turnHistory>>

\* line 72: session.initialize()
Initialize ==
    /\ pc = "initialize"
    /\ \/ /\ pc' = "connect_list_tools"
          /\ UNCHANGED main_exc
       \/ MainRaise("initialize")
    /\ Receive("initialize")
    /\ UNCHANGED prev_outcome
    /\ UNCHANGED <<session, exit_stack, acquired, released, cleanups,
                   loopVars, exc, turnLocals, turnHistory>>

\* lines 75-77: list the tools, print their names; chat_loop starts
ConnectListTools ==
    /\ pc = "connect_list_tools"
    /\ \/ /\ pc' = "input"
          /\ UNCHANGED main_exc
       \/ MainRaise("list_tools")
    /\ Receive("list_tools")
    /\ UNCHANGED prev_outcome
    /\ UNCHANGED <<session, exit_stack, acquired, released, cleanups,
                   loopVars, exc, turnLocals, turnHistory>>

\* lines 166-168, 178-179: the finally of main; aclose exits every context
\* on the stack, the last entered first
Cleanup ==
    /\ pc = "cleanup"
    /\ released' = released \o Reverse(exit_stack)
    /\ exit_stack' = <<>>
    /\ cleanups' = cleanups + 1
    /\ pc' = "exited"
    /\ UNCHANGED in_flight
    /\ UNCHANGED prev_outcome
    /\ UNCHANGED <<session, acquired, main_exc, loopVars, exc, turnLocals,
                   turnHistory>>

(***************************************************************************)
(* chat_loop.                                                              *)
(***************************************************************************)
\* an exception is raised inside the try of chat_loop
Raise(kind) ==
    /\ exc' = kind
    /\ pc' = "except"

\* lines 154-160: a line is read and stripped; q breaks the loop, any other
\* line is given to process_user_prompt
InputLine ==
    /\ pc = "input"
    /\ \E line \in UserLines :
         /\ user_prompt' = Strip(line)
         /\ IF IsQuit(Strip(line))
            THEN /\ pc' = "cleanup"
                 /\ UNCHANGED <<turns, out, turnLocals, turnHistory,
                                prev_outcome>>
            ELSE /\ turns < MaxTurns
                 /\ turns' = turns + 1
                 /\ prev_outcome' = outcome
                 /\ out' = NoOut
                 /\ ResetTurn
                 /\ pc' = "list_tools"
    /\ UNCHANGED in_flight
    /\ UNCHANGED <<mainVars, exc>>

\* mutant of InputEOF: the end of input breaks the loop
InputEOFBreaks ==
    /\ pc = "input"
    /\ pc' = "cleanup"
    /\ UNCHANGED <<mainVars, loopVars, exc, turnLocals, turnHistory,
                   in_flight, prev_outcome>>

\* line 154: input() raises EOFError, an Exception: caught at line 163
InputEOF ==
    /\ pc = "input"
    /\ Raise("EOFError")
    /\ UNCHANGED in_flight
    /\ UNCHANGED prev_outcome
    /\ UNCHANGED <<mainVars, loopVars, turnLocals, turnHistory>>

\* line 154: input() is interrupted; KeyboardInterrupt is no Exception, so
\* it leaves chat_loop
InputInterrupt ==
    /\ pc = "input"
    /\ MainRaise("KeyboardInterrupt")
    /\ UNCHANGED in_flight
    /\ UNCHANGED prev_outcome
    /\ UNCHANGED <<session, exit_stack, acquired, released, cleanups,
                   loopVars, exc, turnLocals, turnHistory>>

\* an exception is raised inside process_user_prompt: it ends the turn and
\* reaches the try of chat_loop
TurnRaise(kind) ==
    /\ Raise(kind)
    /\ outcome' = kind

\* line 161: the answer is printed
PrintResponse ==
    /\ pc = "print"
    /\ out' = [kind |-> "answer", text |-> <<"\n">> \o response]
    /\ pc' = "input"
    /\ UNCHANGED in_flight
    /\ UNCHANGED prev_outcome
    /\ UNCHANGED <<mainVars, turns, user_prompt, exc, turnLocals,
                   turnHistory>>

\* mutant of HandleException: the exception is raised again and leaves the
\* loop
HandleExceptionReraises ==
    /\ pc = "except"
    /\ MainRaise(exc)
    /\ UNCHANGED in_flight
    /\ UNCHANGED prev_outcome
    /\ UNCHANGED <<session, exit_stack, acquired, released, cleanups,
                   loopVars, exc, turnLocals, turnHistory>>

\* lines 163-164: the exception is printed and the loop goes on
HandleException ==
    /\ pc = "except"
    /\ out' = [kind |-> "error", text |-> <<"\n", "Error: ", exc>>]
    /\ exc' = "none"
    /\ pc' = "input"
    /\ UNCHANGED in_flight
    /\ UNCHANGED prev_outcome
    /\ UNCHANGED <<mainVars, turns, user_prompt, turnLocals, turnHistory>>

(***************************************************************************)
(* process_user_prompt.  Every external call either returns or raises.     *)
(***************************************************************************)
\* mutant of DirectFinalText: the response is appended to
\* assistant_message_content only (line 143), final_text stays empty
DirectFinalTextEmpty(text) == <<>>

\* lines 113, 141-142: with no tool call, final_text is the model response
DirectFinalText(text) == <<text>>

\* mutant of FinalPrompt: the second call is augmented_model_call too, the
\* system prompt is sent again
FinalPromptAugmented(text) == CombinedPrompt(system_prompt, text)

\* line 136: the second model call is model_call(weather_prompt_text), the
\* system prompt and the user prompt are not sent again
FinalPrompt(text) == text

\* mutant of AfterFinalAnswer: the second response is parsed for a tool call
\* as the first was
AfterFinalAnswerParses == "parse"

\* lines 137, 145: after the second model call the function returns; the
\* second response is not parsed
AfterFinalAnswer == "return"

\* line 89: session.list_tools()
ListTools ==
    /\ pc = "list_tools"
    /\ calls' = Append(calls, "list_tools")
    /\ \/ pc' = "list_prompts" /\ UNCHANGED <<exc, outcome>>
       \/ TurnRaise("list_tools")
    /\ Receive("list_tools")
    /\ UNCHANGED prev_outcome
    /\ UNCHANGED <<mainVars, loopVars, turnLocals, gen_prompts, gen_returns,
                   tool_args, prompt_args, extracted>>

\* mutant of ListPrompts: a failure of list_prompts is noted and the turn
\* goes on to get_prompt
ListPromptsSwallowsFailure ==
    /\ pc = "list_prompts"
    /\ calls' = Append(calls, "list_prompts")
    /\ \/ pc' = "get_prompt" /\ UNCHANGED <<exc, outcome>>
       \/ pc' = "get_prompt" /\ outcome' = "list_prompts" /\ UNCHANGED exc
    /\ Receive("list_prompts")
    /\ UNCHANGED prev_outcome
    /\ UNCHANGED <<mainVars, loopVars, turnLocals, gen_prompts, gen_returns,
                   tool_args, prompt_args, extracted>>

\* line 98: session.list_prompts()
ListPrompts ==
    /\ pc = "list_prompts"
    /\ calls' = Append(calls, "list_prompts")
    /\ \/ pc' = "get_prompt" /\ UNCHANGED <<exc, outcome>>
       \/ TurnRaise("list_prompts")
    /\ Receive("list_prompts")
    /\ UNCHANGED prev_outcome
    /\ UNCHANGED <<mainVars, loopVars, turnLocals, gen_prompts, gen_returns,
                   tool_args, prompt_args, extracted>>

\* lines 104-105: session.get_prompt("weather_prompt"), with no arguments
GetPrompt ==
    /\ pc = "get_prompt"
    /\ calls' = Append(calls, "get_prompt:weather_prompt")
    /\ \/ /\ \E text \in SystemPrompts : system_prompt' = text
          /\ pc' = "generate"
          /\ UNCHANGED <<exc, outcome>>
       \/ /\ TurnRaise("get_prompt")
          /\ UNCHANGED system_prompt
    /\ Receive("get_prompt:weather_prompt")
    /\ UNCHANGED prev_outcome
    /\ UNCHANGED <<mainVars, loopVars, model_response, function_call_json,
                   weather_result, weather_prompt_text, final_text, response,
                   gen_prompts, gen_returns, tool_args, prompt_args,
                   extracted>>

\* line 108, lines 41-43, 31-39: the first model call, on the system prompt
\* and the user prompt joined by a newline
Generate ==
    /\ pc = "generate"
    /\ calls' = Append(calls, "generate")
    /\ gen_prompts' =
         Append(gen_prompts, CombinedPrompt(system_prompt, user_prompt))
    /\ \/ /\ \E text \in TurnResponses :
               /\ model_response' = text
               /\ gen_returns' = Append(gen_returns, text)
          /\ pc' = "parse"
          /\ UNCHANGED <<exc, outcome>>
       \/ /\ TurnRaise("model_call")
          /\ UNCHANGED <<model_response, gen_returns>>
    /\ Receive("generate")
    /\ UNCHANGED prev_outcome
    /\ UNCHANGED <<mainVars, loopVars, system_prompt, function_call_json,
                   weather_result, weather_prompt_text, final_text, response,
                   tool_args, prompt_args, extracted>>

\* mutant of ParseAndBranch: the city is read from the payload when the
\* branch is taken, before the tool is called
ParseAndBranchReadsCity ==
    /\ pc = "parse"
    /\ \E r \in {parse_response(model_response)} :
           IF r.raised
           THEN /\ TurnRaise("JSONDecodeError")
                /\ UNCHANGED <<function_call_json, final_text, extracted>>
           ELSE /\ function_call_json' = r.ret
                /\ extracted' = IF r.ret = None THEN extracted
                                ELSE Append(extracted, r.ret)
                /\ IF Truthy(r.ret)
                   THEN /\ final_text' = <<>>
                        /\ IF r.ret.t = "obj" /\ "city" \in DOMAIN r.ret.v
                           THEN pc' = "call_tool" /\ UNCHANGED <<exc, outcome>>
                           ELSE TurnRaise("KeyError")
                   ELSE /\ final_text' = DirectFinalText(model_response)
                        /\ pc' = "return"
                        /\ UNCHANGED <<exc, outcome>>
    /\ UNCHANGED in_flight
    /\ UNCHANGED prev_outcome
    /\ UNCHANGED <<mainVars, loopVars, system_prompt, model_response,
                   weather_result, weather_prompt_text, response, calls,
                   gen_prompts, gen_returns, tool_args, prompt_args>>

\* lines 111-117 and 139-143: the response is parsed, and the branch taken
\* on the truth value of what parse_response returned
ParseAndBranch ==
    /\ pc = "parse"
    /\ \E r \in {parse_response(model_response)} :
           IF r.raised
           THEN /\ TurnRaise("JSONDecodeError")
                /\ UNCHANGED <<function_call_json, final_text, extracted>>
           ELSE /\ function_call_json' = r.ret
                /\ extracted' = IF r.ret = None THEN extracted
                                ELSE Append(extracted, r.ret)
                /\ IF Truthy(r.ret)
                   THEN /\ final_text' = <<>>
                        /\ pc' = "call_tool"
                   ELSE /\ final_text' = DirectFinalText(model_response)
                        /\ pc' = "return"
                /\ UNCHANGED <<exc, outcome>>
    /\ UNCHANGED in_flight
    /\ UNCHANGED prev_outcome
    /\ UNCHANGED <<mainVars, loopVars, system_prompt, model_response,
                   weather_result, weather_prompt_text, response, calls,
                   gen_prompts, gen_returns, tool_args, prompt_args>>

\* mutant of ToolCall: the tool is the one the payload names, weather_tool
\* when it names none
ToolCallNamedByPayload(arguments) ==
    IF arguments.t = "obj" /\ "name" \in DOMAIN arguments.v
    THEN "call_tool:other_tool"
    ELSE "call_tool:weather_tool"

\* line 120: the tool called is the literal 'weather_tool', whatever the
\* arguments are
ToolCall(arguments) == "call_tool:weather_tool"

\* mutant of CallTool: a failure of call_tool is noted and the turn goes on
\* with an empty weather result
CallToolFailureIgnored ==
    /\ pc = "call_tool"
    /\ calls' = Append(calls, ToolCall(function_call_json))
    /\ tool_args' = Append(tool_args, function_call_json)
    /\ \/ /\ \E text \in ToolResults : weather_result' = text
          /\ pc' = "get_response_prompt"
          /\ UNCHANGED <<exc, outcome>>
       \/ /\ outcome' = "call_tool"
          /\ pc' = "get_response_prompt"
          /\ UNCHANGED <<exc, weather_result>>
    /\ Receive("call_tool:weather_tool")
    /\ UNCHANGED prev_outcome
    /\ UNCHANGED <<mainVars, loopVars, system_prompt, model_response,
                   function_call_json, weather_prompt_text, final_text,
                   response, gen_prompts, gen_returns, prompt_args,
                   extracted>>

\* lines 120-123: session.call_tool("weather_tool", function_call_json)
CallTool ==
    /\ pc = "call_tool"
    /\ calls' = Append(calls, ToolCall(function_call_json))
    /\ tool_args' = Append(tool_args, function_call_json)
    /\ \/ /\ \E text \in ToolResults : weather_result' = text
          /\ pc' = "get_response_prompt"
          /\ UNCHANGED <<exc, outcome>>
       \/ /\ TurnRaise("call_tool")
          /\ UNCHANGED weather_result
    /\ Receive("call_tool:weather_tool")
    /\ UNCHANGED prev_outcome
    /\ UNCHANGED <<mainVars, loopVars, system_prompt, model_response,
                   function_call_json, weather_prompt_text, final_text,
                   response, gen_prompts, gen_returns, prompt_args,
                   extracted>>

\* lines 126-132: function_call_json["city"] is evaluated (TypeError when
\* the value is no dict, KeyError when it has no such key), then
\* session.get_prompt("weather_response_prompt", {city, weather})
GetResponsePrompt ==
    /\ pc = "get_response_prompt"
    /\ IF function_call_json.t # "obj"
       THEN /\ TurnRaise("TypeError")
            /\ UNCHANGED <<weather_prompt_text, calls, prompt_args, in_flight>>
       ELSE IF "city" \notin DOMAIN function_call_json.v
       THEN /\ TurnRaise("KeyError")
            /\ UNCHANGED <<weather_prompt_text, calls, prompt_args, in_flight>>
       ELSE /\ Receive("get_prompt:weather_response_prompt")
            /\ calls' = Append(calls, "get_prompt:weather_response_prompt")
            /\ prompt_args' =
                 Append(prompt_args, [city |-> function_call_json.v["city"],
                                      weather |-> weather_result])
            /\ \/ /\ weather_prompt_text' =
                       WeatherResponsePrompt(function_call_json.v["city"],
                                             weather_result)
                  /\ pc' = "generate_final"
                  /\ UNCHANGED <<exc, outcome>>
               \/ /\ TurnRaise("get_prompt")
                  /\ UNCHANGED weather_prompt_text
    /\ UNCHANGED prev_outcome
    /\ UNCHANGED <<mainVars, loopVars, system_prompt, model_response,
                   function_call_json, weather_result, final_text, response,
                   gen_prompts, gen_returns, tool_args, extracted>>

\* lines 136-137: the second model call, on the weather prompt alone
GenerateFinal ==
    /\ pc = "generate_final"
    /\ calls' = Append(calls, "generate")
    /\ gen_prompts' = Append(gen_prompts, FinalPrompt(weather_prompt_text))
    /\ \/ /\ \E text \in FinalResponses :
               /\ model_response' = text
               /\ gen_returns' = Append(gen_returns, text)
               /\ final_text' = Append(final_text, text)
          /\ pc' = AfterFinalAnswer
          /\ UNCHANGED <<exc, outcome>>
       \/ /\ TurnRaise("model_call")
          /\ UNCHANGED <<model_response, gen_returns, final_text>>
    /\ Receive("generate")
    /\ UNCHANGED prev_outcome
    /\ UNCHANGED <<mainVars, loopVars, system_prompt, function_call_json,
                   weather_result, weather_prompt_text, response, tool_args,
                   prompt_args, extracted>>

\* lines 145, 160: the lines of final_text are joined and returned
Return ==
    /\ pc = "return"
    /\ response' = Join(<<"\n">>, final_text)
    /\ outcome' = "returned"
    /\ pc' = "print"
    /\ UNCHANGED in_flight
    /\ UNCHANGED prev_outcome
    /\ UNCHANGED <<mainVars, loopVars, exc, system_prompt, model_response,
                   function_call_json, weather_result, weather_prompt_text,
                   final_text, calls, gen_prompts, gen_returns, tool_args,
                   prompt_args, extracted>>

Next ==
    \/ Send
    \/ ConnectStdio
    \/ ConnectSession
    \/ Initialize
    \/ ConnectListTools
    \/ Cleanup
    \/ InputLine
    \/ InputEOF
    \/ InputInterrupt
    \/ PrintResponse
    \/ HandleException
    \/ ListTools
    \/ ListPrompts
    \/ GetPrompt
    \/ Generate
    \/ ParseAndBranch
    \/ CallTool
    \/ GetResponsePrompt
    \/ GenerateFinal
    \/ Return

Spec == Init /\ [][Next]_vars

(***************************************************************************)
(* parse_response alone, on every text of at most MaxSegs segments.        *)
(***************************************************************************)
InitExtract ==
    /\ pc = "extract"
    /\ session = "none"
    /\ exit_stack = <<>>
    /\ acquired = <<>>
    /\ released = <<>>
    /\ cleanups = 0
    /\ main_exc = "none"
    /\ turns = 0
    /\ user_prompt = NoText
    /\ exc = "none"
    /\ out = NoOut
    /\ system_prompt = NoText
    /\ model_response \in Texts(MaxSegs)
    /\ function_call_json = None
    /\ weather_result = NoText
    /\ weather_prompt_text = NoText
    /\ final_text = <<>>
    /\ response = NoText
    /\ calls = <<>>
    /\ gen_prompts = <<>>
    /\ gen_returns = <<>>
    /\ tool_args = <<>>
    /\ prompt_args = <<>>
    /\ extracted = <<>>
    /\ outcome = "none"
    /\ in_flight = {}
    /\ prev_outcome = "none"

\* lines 45-48: parse_response(model_response) returns or raises
Extract ==
    /\ pc = "extract"
    /\ \E r \in {parse_response(model_response)} :
           /\ function_call_json' = r.ret
           /\ exc' = IF r.raised THEN "JSONDecodeError" ELSE "none"
           /\ extracted' = IF r.raised \/ r.ret = None THEN extracted
                           ELSE Append(extracted, r.ret)
    /\ pc' = "extracted"
    /\ UNCHANGED in_flight
    /\ UNCHANGED prev_outcome
    /\ UNCHANGED <<mainVars, loopVars, system_prompt, model_response,
                   weather_result, weather_prompt_text, final_text, response,
                   calls, gen_prompts, gen_returns, tool_args, prompt_args,
                   outcome>>

SpecExtract == InitExtract /\ [][Extract]_vars

(***************************************************************************)
(* The prompt composition of augmented_model_call alone, on every pair of  *)
(* texts of at most MaxPromptLen characters, applied twice.                *)
(***************************************************************************)
PromptChars == {"a", " ", "\n", "{"}

RECURSIVE PromptTexts(_)
\* the texts of at most n characters
PromptTexts(n) ==
    IF n = 0 THEN { <<>> }
    ELSE LET T == PromptTexts(n - 1)
         IN  T \cup { Append(t, c) : t \in T, c \in PromptChars }

InitCompose ==
    /\ pc = "compose"
    /\ session = "none"
    /\ exit_stack = <<>>
    /\ acquired = <<>>
    /\ released = <<>>
    /\ cleanups = 0
    /\ main_exc = "none"
    /\ turns = 0
    /\ user_prompt \in PromptTexts(MaxPromptLen)
    /\ exc = "none"
    /\ out = NoOut
    /\ system_prompt \in PromptTexts(MaxPromptLen)
    /\ model_response = NoText
    /\ function_call_json = None
    /\ weather_result = NoText
    /\ weather_prompt_text = NoText
    /\ final_text = <<>>
    /\ response = NoText
    /\ calls = <<>>
    /\ gen_prompts = <<>>
    /\ gen_returns = <<>>
    /\ tool_args = <<>>
    /\ prompt_args = <<>>
    /\ extracted = <<>>
    /\ outcome = "none"
    /\ in_flight = {}
    /\ prev_outcome = "none"

\* lines 41-42: combined_prompt is built from the two arguments; the same
\* arguments are composed a second time
Compose ==
    /\ pc \in {"compose", "composed"}
    /\ Len(gen_prompts) < 2
    /\ gen_prompts' =
         Append(gen_prompts, CombinedPrompt(system_prompt, user_prompt))
    /\ pc' = "composed"
    /\ UNCHANGED prev_outcome
    /\ UNCHANGED <<mainVars, loopVars, exc, turnLocals, calls, gen_returns,
                   tool_args, prompt_args, extracted, outcome, in_flight>>

SpecCompose == InitCompose /\ [][Compose]_vars

(***************************************************************************)
(* Properties.                                                             *)
(***************************************************************************)
\* where process_user_prompt can be
TurnPcs == {"list_tools", "list_prompts", "get_prompt", "generate", "parse",
            "call_tool", "get_response_prompt", "generate_final", "return"}

\* the last turn returned its answer to chat_loop
Returned == outcome = "returned"

\* the calls of every turn up to the first model call
CallsToFirstAnswer ==
    <<"list_tools", "list_prompts", "get_prompt:weather_prompt", "generate">>

\* the calls of the tool branch
ToolBranchCalls ==
    <<"call_tool:weather_tool", "get_prompt:weather_response_prompt",
      "generate">>

IsPrefix(s, t) == Len(s) <= Len(t) /\ s = SubSeq(t, 1, Len(s))

\* the turn took the tool branch at line 117
ToolBranchTaken == Truthy(function_call_json)

\* the turn took the else branch at line 140
DirectBranchTaken ==
    /\ ~Truthy(function_call_json)
    /\ pc = "return" \/ Returned

C2_DirectBranch ==
    DirectBranchTaken =>
      /\ calls = CallsToFirstAnswer
      /\ Len(gen_prompts) = 1
      /\ Len(gen_returns) = 1
      /\ tool_args = <<>>
      /\ prompt_args = <<>>
      /\ final_text = <<gen_returns[1]>>
      /\ Returned =>
           /\ response = gen_returns[1]
           /\ out.kind = "answer" => out.text = <<"\n">> \o gen_returns[1]

\* a turn whose response held no fenced block has printed that response
C2_Witness ==
    /\ DirectBranchTaken
    /\ pc = "input"
    /\ out.kind = "answer"
    /\ gen_returns = << <<"hi">> >>
    /\ function_call_json = None


\* the ways an external call of a turn fails
ExternalFailures ==
    {"list_tools", "list_prompts", "get_prompt", "model_call", "call_tool"}

\* the value has a "city" entry
HasCity(j) == j.t = "obj" /\ "city" \in DOMAIN j.v

\* how far process_user_prompt has got
Rank(at) ==
    CASE at = "list_tools" -> 1
      [] at = "list_prompts" -> 2
      [] at = "get_prompt" -> 3
      [] at = "generate" -> 4
      [] at = "parse" -> 5
      [] at = "call_tool" -> 6
      [] at = "get_response_prompt" -> 7
      [] at = "generate_final" -> 8
      [] at = "return" -> 9
      [] OTHER -> 10

\* every step of a turn moves it forward, and it ends by returning or by
\* raising: a step sends the call of the statement the turn is at, or leaves
\* that statement for a later one; no statement is repeated
TurnStep ==
    pc \in TurnPcs =>
      /\ \/ Rank(pc') > Rank(pc)
         \/ pc' = pc /\ in_flight = {} /\ in_flight' # {}
      /\ pc' \in TurnPcs \cup {"print", "except"}
      /\ (pc' = "print") <=> (outcome' = "returned")
      /\ (pc' = "except") <=> (outcome' \notin {"none", "returned"})

TurnEnds == [][TurnStep]_vars

\* a turn that returned produced exactly one answer string, the one printed
OneAnswer ==
    Returned =>
      /\ Len(final_text) = 1
      /\ response = final_text[1]
      /\ out.kind = "answer" => out.text = <<"\n">> \o final_text[1]

\* C3 as stated: a turn fails only when an external call failed or the
\* fenced payload was not valid JSON; otherwise it returns one answer.
C3_Original ==
    /\ [](/\ outcome \notin {"none", "returned"} =>
              outcome \in ExternalFailures \cup {"JSONDecodeError"}
          /\ OneAnswer)
    /\ TurnEnds

\* C3, amended: a turn fails only when an external call failed, or the fenced
\* payload was not valid JSON, or the payload was a value that Python takes
\* as true and that has no "city" entry (then the tool has been called and
\* line 128 raises); otherwise it returns one answer.
C3_TurnReturnsOneAnswer ==
    /\ [](/\ outcome \notin {"none", "returned"} =>
              \/ outcome \in ExternalFailures \cup {"JSONDecodeError"}
              \/ /\ outcome \in {"KeyError", "TypeError"}
                 /\ ToolBranchTaken
                 /\ ~HasCity(function_call_json)
                 /\ calls =
                      CallsToFirstAnswer \o <<"call_tool:weather_tool">>
          /\ OneAnswer)
    /\ TurnEnds

\* both branches returned an answer: this turn the tool branch, with a
\* payload that has a city
C3_Witness ==
    /\ Returned
    /\ turns = 2
    /\ HasCity(function_call_json)
    /\ Len(gen_returns) = 2
    /\ out.kind = "answer"

\* C4: in every state of a turn the extractor has produced at most one
\* invocation and call_tool has been called at most once, also when the
\* model response holds several fenced blocks.
C4_AtMostOneInvocation ==
    /\ Len(extracted) <= 1
    /\ Len(tool_args) <= 1
    /\ Cardinality({ i \in 1..Len(calls) :
                       calls[i] = "call_tool:weather_tool" }) <= 1

\* a turn on a response of two fenced blocks has returned
C4_Witness ==
    /\ Returned
    /\ gen_returns[1] = Block(PCity, Close3) \o Block(PNoCity, Close3)
    /\ Len(tool_args) = 1
    /\ Len(extracted) = 1

\* C5: an exception raised in a turn reaches the handler of chat_loop and
\* nothing else; the handler prints the error and the loop reads the next
\* line; main's state is untouched, so the loop and the process go on.
C5_FailedTurnCaught ==
    [][ /\ (pc \in TurnPcs /\ pc' \notin TurnPcs \cup {"print"}) =>
             /\ pc' = "except"
             /\ exc' = outcome'
             /\ exc' # "none"
             /\ UNCHANGED <<mainVars, out>>
        /\ pc = "except" =>
             /\ pc' = "input"
             /\ out' = [kind |-> "error", text |-> <<"\n", "Error: ", exc>>]
             /\ UNCHANGED mainVars ]_vars

\* after a failed tool call the error has been printed and the loop is at
\* input again, with nothing released
C5_Witness ==
    /\ pc = "input"
    /\ outcome = "call_tool"
    /\ out = [kind |-> "error", text |-> <<"\n", "Error: ", "call_tool">>]
    /\ cleanups = 0
    /\ turns < MaxTurns

\* the pattern finds a fenced block in the text and json.loads rejects it
InvalidPayload(text) ==
    LET m == ReSearch(text)
    IN  m.found /\ ~JsonLoads(m.group).ok

WellFormedCloses(s, i) ==
    { k \in (i + Len(FenceOpen))..Len(s) : MatchAt(s, k, Close3) }

\* the starts of the well-formed fenced blocks of s
WellFormedOpens(s) ==
    { i \in 1..Len(s) :
        MatchAt(s, i, FenceOpen) /\ WellFormedCloses(s, i) # {} }

HasWellFormedBlock(s) == WellFormedOpens(s) # {}

\* the inner text of the first well-formed fenced block of s
FirstBlockInner(s) ==
    LET open == Min(WellFormedOpens(s))
        close == Min(WellFormedCloses(s, open))
    IN  SubSeq(s, open + Len(FenceOpen), close - 1)

\* C7 as stated: on a text with no well-formed fenced block parse_response
\* returns None, also when a block is closed by fewer than three backticks.
C7_Original ==
    (pc = "extracted" /\ ~HasWellFormedBlock(model_response)) =>
      /\ exc = "none"
      /\ function_call_json = None

\* C8 as stated: on a text whose fenced block holds a valid JSON object, on
\* one line or on several, parse_response returns exactly that object.
C8_Original ==
    (/\ pc = "extracted"
     /\ HasWellFormedBlock(model_response)
     /\ JsonLoads(FirstBlockInner(model_response)).ok
     /\ JsonLoads(FirstBlockInner(model_response)).val.t = "obj") =>
      /\ exc = "none"
      /\ function_call_json.t = "obj"
      /\ function_call_json.v = JsonLoads(FirstBlockInner(model_response)).val.v

\* C9 as stated: the line quit, which chat_loop announces at line 150 as the
\* way to exit, is never given to process_user_prompt.
C9_Original ==
    pc \in TurnPcs => user_prompt # <<"q", "u", "i", "t">>

\* no element occurs twice in s
NoRepeat(s) == \A i, j \in 1..Len(s) : s[i] = s[j] => i = j

\* C10: the transport and the session are each acquired at most once; when
\* main has ended, by quit or by an exception from connect_to_server or from
\* chat_loop, cleanup has run once and each acquired context has been
\* released exactly once, the last acquired first; nothing is released
\* before, and no turn runs after the release.
C10_AcquireOnceReleaseOnce ==
    /\ NoRepeat(acquired)
    /\ IsPrefix(acquired, <<"stdio", "session">>)
    /\ pc = "exited" =>
         /\ cleanups = 1
         /\ released = Reverse(acquired)
         /\ exit_stack = <<>>
    /\ pc # "exited" =>
         /\ cleanups = 0
         /\ released = <<>>
         /\ exit_stack = acquired
    /\ main_exc # "none" => pc \in {"cleanup", "exited"}
    /\ pc \in TurnPcs \cup {"input", "print", "except"} =>
         /\ released = <<>>
         /\ acquired = <<"stdio", "session">>
         /\ session = "open"

\* main has ended by an exception of session.initialize, and the session
\* and the transport have been released
C10_Witness ==
    /\ pc = "exited"
    /\ main_exc = "initialize"
    /\ released = <<"session", "stdio">>
    /\ cleanups = 1


\* the turn the loop started last is over: it returned or it raised
TurnOver == turns > 0 => outcome # "none"

\* a step of chat_loop that reads a line: it sets user_prompt, starts a
\* turn, breaks the loop, or raises from input()
ReadsInput ==
    \/ turns' # turns
    \/ user_prompt' # user_prompt
    \/ pc = "input" /\ pc' # "input"

\* C11: in every reachable state at most one external call is in flight, and
\* it is the call of the statement the program is at; chat_loop reads a line
\* only when no call is in flight and the turn it started last has returned
\* or has raised.
C11_OneCallInFlight ==
    /\ [](/\ Cardinality(in_flight) <= 1
          /\ in_flight # {} => pc \in CallPcs /\ in_flight = {CallAt(pc)}
          /\ pc = "input" => in_flight = {} /\ TurnOver)
    /\ [][ReadsInput => pc = "input" /\ in_flight = {} /\ TurnOver]_vars

\* in the second turn the tool call is in flight, and nothing else
C11_Witness ==
    /\ turns = 2
    /\ pc = "call_tool"
    /\ in_flight = {"call_tool:weather_tool"}
    /\ outcome = "none"


\* text is first, then one newline, then second, and nothing else
IsComposition(text, first, second) ==
    /\ Len(text) = Len(first) + 1 + Len(second)
    /\ \A i \in 1..Len(first) : text[i] = first[i]
    /\ text[Len(first) + 1] = "\n"
    /\ \A i \in 1..Len(second) : text[Len(first) + 1 + i] = second[i]

\* C12: the prompt augmented_model_call composes is exactly the system text,
\* one newline, then the user text, character for character, whatever the
\* two texts hold (blanks, newlines, braces, nothing at all); and composing
\* the same pair a second time gives the same text.
C12_ComposeExact ==
    /\ \A i \in 1..Len(gen_prompts) :
         IsComposition(gen_prompts[i], system_prompt, user_prompt)
    /\ Len(gen_prompts) = 2 => gen_prompts[1] = gen_prompts[2]

\* a system text that ends in a newline and a user text of a blank and a
\* brace have been composed twice
C12_Witness ==
    /\ pc = "composed"
    /\ system_prompt = <<"a", "\n">>
    /\ user_prompt = <<" ", "{">>
    /\ Len(gen_prompts) = 2
    /\ gen_prompts[2] = <<"a", "\n", "\n", " ", "{">>


\* the calls of every turn before the first model call
SetupCalls == <<"list_tools", "list_prompts", "get_prompt:weather_prompt">>

\* how often the call has been made and answered in this turn
Count(name) == Cardinality({ i \in 1..Len(calls) : calls[i] = name })

\* the model has been called in this turn, or the call is in flight
ModelCalled == "generate" \in in_flight \/ Count("generate") > 0

\* the turn failed in one of its three first calls
SetupFailed == outcome \in ExternalFailures /\ Len(calls) <= Len(SetupCalls)

\* the first model call of the turn is sent in this step
FirstGenerateSent ==
    /\ pc = "generate"
    /\ "generate" \notin in_flight
    /\ "generate" \in in_flight'

\* C13: the first model call of a turn is sent only when list_tools,
\* list_prompts and get_prompt("weather_prompt") have each been made once, in
\* this order, and each has returned; when one of the three raises, the
\* model is not called in that turn.
C13_SetupBeforeModel ==
    /\ [](/\ \A i \in 1..Len(SetupCalls) : Count(SetupCalls[i]) <= 1
          /\ IsPrefix(calls, SetupCalls) \/ IsPrefix(SetupCalls, calls)
          /\ ModelCalled =>
               /\ IsPrefix(SetupCalls, calls)
               /\ system_prompt \in SystemPrompts
               /\ ~SetupFailed
          /\ SetupFailed =>
               /\ ~ModelCalled
               /\ gen_prompts = <<>>
               /\ gen_returns = <<>>
               /\ pc \notin TurnPcs \cup {"print"})
    /\ [][FirstGenerateSent =>
            /\ calls = SetupCalls
            /\ outcome = "none"
            /\ system_prompt \in SystemPrompts]_vars

\* in the second turn the three calls have returned and the first model
\* call is in flight
C13_Witness ==
    /\ turns = 2
    /\ pc = "generate"
    /\ in_flight = {"generate"}
    /\ calls = SetupCalls
    /\ outcome = "none"


\* an external call of this turn raised
CallFailed == outcome \in ExternalFailures

\* the calls whose failure ends a turn with the outcome
CallsFailingAs(kind) ==
    CASE kind = "list_tools" -> {"list_tools"}
      [] kind = "list_prompts" -> {"list_prompts"}
      [] kind = "get_prompt" -> {"get_prompt:weather_prompt",
                                 "get_prompt:weather_response_prompt"}
      [] kind = "model_call" -> {"generate"}
      [] kind = "call_tool" -> {"call_tool:weather_tool"}

\* C14: no call of a turn is made a second time, and once an external call
\* of a turn has raised, the failed call stays the last call of the turn:
\* nothing is in flight, process_user_prompt has been left, no answer is
\* returned or printed; after a failed call_tool there is neither a
\* get_prompt("weather_response_prompt") nor a second model call.
C14_NoRetryAfterFailure ==
    /\ [](/\ IsPrefix(calls, CallsToFirstAnswer \o ToolBranchCalls)
          /\ CallFailed =>
               /\ calls # <<>>
               /\ calls[Len(calls)] \in CallsFailingAs(outcome)
               /\ in_flight = {}
               /\ pc \notin TurnPcs \cup {"print"}
               /\ response = NoText
               /\ out.kind # "answer"
          /\ outcome = "call_tool" =>
               /\ calls = CallsToFirstAnswer \o <<"call_tool:weather_tool">>
               /\ prompt_args = <<>>
               /\ weather_result = NoText
               /\ weather_prompt_text = NoText
               /\ Len(gen_prompts) = 1
               /\ final_text = <<>>)
    /\ [][(CallFailed /\ outcome' = outcome) =>
            UNCHANGED <<calls, in_flight, gen_prompts, tool_args, prompt_args,
                        response, final_text>>]_vars

\* the tool call of the second turn has raised, the error has been printed
\* and the loop is at input again
C14_Witness ==
    /\ turns = 2
    /\ outcome = "call_tool"
    /\ pc = "input"
    /\ out.kind = "error"
    /\ Len(tool_args) = 1


\* the names the call history of a turn may hold
KnownCalls ==
    {"list_tools", "list_prompts", "get_prompt:weather_prompt", "generate",
     "call_tool:weather_tool", "get_prompt:weather_response_prompt"}

\* what json.loads makes of the first fenced block of the text
ParsedPayload(text) == JsonLoads(ReSearch(text).group).val

\* C15: every call_tool of a turn names weather_tool, also when the payload
\* names another tool, and its arguments are the value parsed from the
\* fenced block of the first model response, every entry of it and nothing
\* else.
C15_ToolNameAndArguments ==
    /\ \A i \in 1..Len(calls) : calls[i] \in KnownCalls
    /\ Len(tool_args) = Count("call_tool:weather_tool")
    /\ tool_args # <<>> =>
         /\ ReSearch(gen_returns[1]).found
         /\ JsonLoads(ReSearch(gen_returns[1]).group).ok
         /\ tool_args = << ParsedPayload(gen_returns[1]) >>
         /\ function_call_json = tool_args[1]

\* the payload named another tool: weather_tool has been called with the
\* whole payload, the name entry included
C15_Witness ==
    /\ gen_returns # <<>>
    /\ gen_returns[1] = Block(PNamed, Close3)
    /\ calls = CallsToFirstAnswer \o <<"call_tool:weather_tool">>
    /\ tool_args = << JObj([name |-> JStr("other_tool"),
                            city |-> JStr("Paris")]) >>


\* the first model response of the turn has been parsed without an error
ResponseParsed ==
    /\ gen_returns # <<>>
    /\ pc # "parse"
    /\ outcome # "JSONDecodeError"

\* the turn went into the branch of line 117: it is at call_tool or past it
InToolBranch == pc = "call_tool" \/ tool_args # <<>>

\* the turn went into the branch of line 140: the first model response is
\* the final text
InDirectBranch == Len(gen_returns) = 1 /\ final_text = <<gen_returns[1]>>

\* C16 as stated: the tool branch is taken exactly when the pattern found a
\* fenced block whose inner text json.loads accepted, and the direct branch
\* exactly when the pattern found nothing; a parsed payload, the empty object
\* included, never leads to the direct branch.
C16_Original ==
    ResponseParsed =>
      LET m == ReSearch(gen_returns[1])
      IN  /\ InToolBranch <=> (m.found /\ JsonLoads(m.group).ok)
          /\ InDirectBranch <=> ~m.found


\* a step that gives the line read to process_user_prompt
Forwards == pc = "input" /\ turns' = turns + 1 /\ pc' = "list_tools"

\* C17 as stated: a line that is not empty after strip and is not the quit
\* token is given to process_user_prompt once and the answer of the turn is
\* printed; an empty line is not given to it and makes no external call.
C17_Original ==
    /\ [](pc \in TurnPcs => user_prompt # <<>> /\ ~IsQuit(user_prompt))
    /\ [][/\ Forwards => user_prompt' # <<>> /\ ~IsQuit(user_prompt')
          /\ pc = "print" =>
               /\ pc' = "input"
               /\ out' = [kind |-> "answer", text |-> <<"\n">> \o response]
         ]_vars


\* process_user_prompt has been called and has made no call yet
TurnStart == pc = "list_tools" /\ in_flight = {}

\* how a turn in which no external call raises ends, from the first model
\* response alone
OutcomeOf(text) ==
    LET r == parse_response(text)
    IN  IF r.raised THEN "JSONDecodeError"
        ELSE IF ~Truthy(r.ret) THEN "returned"
        ELSE IF r.ret.t # "obj" THEN "TypeError"
        ELSE IF "city" \notin DOMAIN r.ret.v THEN "KeyError"
        ELSE "returned"

\* the calls such a turn makes, from the first model response alone
CallsOf(text) ==
    LET r == parse_response(text)
    IN  IF r.raised \/ ~Truthy(r.ret) THEN CallsToFirstAnswer
        ELSE IF OutcomeOf(text) = "returned"
        THEN CallsToFirstAnswer \o ToolBranchCalls
        ELSE CallsToFirstAnswer \o <<"call_tool:weather_tool">>

\* the answer such a turn returns, from the model responses alone
AnswerOf(texts) ==
    IF Truthy(parse_response(texts[1]).ret) THEN texts[2] ELSE texts[1]

\* a step of a turn leaves alone what outlives the turn: the session and the
\* exit stack, the user prompt, the count of turns
TurnKeepsClient ==
    pc \in TurnPcs => UNCHANGED <<mainVars, turns, user_prompt, prev_outcome>>

\* C18: a turn starts with nothing of the turns before it, whatever they
\* did, and changes nothing that outlives it; what it sends, which calls it
\* makes and how it ends are functions of its user prompt and of what its
\* own calls answered, the same in every turn and after every earlier turn.
C18_TurnsIndependent ==
    /\ [](/\ TurnStart => FreshTurn /\ out = NoOut /\ exc = "none"
          /\ (pc \in TurnPcs /\ gen_prompts # <<>>) =>
               gen_prompts[1] = CombinedPrompt(system_prompt, user_prompt)
          /\ (outcome # "none" /\ ~CallFailed) =>
               /\ outcome = OutcomeOf(gen_returns[1])
               /\ calls = CallsOf(gen_returns[1])
               /\ Returned => response = AnswerOf(gen_returns)
          /\ CallFailed =>
               /\ calls[Len(calls)] \in CallsFailingAs(outcome)
               /\ IF gen_returns = <<>>
                  THEN IsPrefix(calls, CallsToFirstAnswer)
                  ELSE /\ IsPrefix(calls, CallsOf(gen_returns[1]))
                       /\ Truthy(parse_response(gen_returns[1]).ret))
    /\ [][TurnKeepsClient]_vars

\* the turn before failed in its tool call; this turn, on the same kind of
\* response, has called the tool and returned the second model response
C18_Witness ==
    /\ turns = 2
    /\ prev_outcome = "call_tool"
    /\ Returned
    /\ calls = CallsToFirstAnswer \o ToolBranchCalls
    /\ gen_returns = << Block(PCity, Close3), <<"sunny">> >>
    /\ response = <<"sunny">>


\* where chat_loop can be, the turn it awaits included
LoopPcs == TurnPcs \cup {"input", "print", "except"}

\* a step that leaves chat_loop
LeavesLoop == pc \in LoopPcs /\ pc' \notin LoopPcs

\* an EOFError of input() goes to the handler of line 163, which prints it
\* and goes back to input(), where the next EOFError can be raised: nothing
\* else has changed, so a run whose reads all fail never leaves the loop
EOFCaught ==
    /\ (pc = "input" /\ exc' = "EOFError") =>
         /\ pc' = "except"
         /\ UNCHANGED <<mainVars, loopVars, turnLocals, turnHistory>>
    /\ (pc = "except" /\ exc = "EOFError") =>
         /\ pc' = "input"
         /\ exc' = "none"
         /\ out' = [kind |-> "error", text |-> <<"\n", "Error: ", "EOFError">>]
         /\ UNCHANGED <<mainVars, turns, user_prompt, turnLocals, turnHistory>>

CityMissing == outcome \in {"KeyError", "TypeError"}

\* this step raises the error of line 128
RaisesCityMissing == ~CityMissing /\ CityMissing'

\* C20: the city is read from the payload only when call_tool has returned.
\* A turn on a payload with no city entry calls the tool once with that
\* payload, and when the tool has returned it fails: it has not called
\* get_prompt("weather_response_prompt"), it makes no second model call and
\* it returns no answer.
C20_CityReadAfterToolCall ==
    /\ [](/\ CityMissing =>
               /\ ~HasCity(function_call_json)
               /\ calls = CallsToFirstAnswer \o <<"call_tool:weather_tool">>
               /\ tool_args = <<function_call_json>>
               /\ weather_result \in ToolResults
               /\ prompt_args = <<>>
               /\ weather_prompt_text = NoText
               /\ Len(gen_prompts) = 1
               /\ final_text = <<>>
               /\ response = NoText
               /\ out.kind # "answer"
               /\ in_flight = {}
               /\ pc \notin TurnPcs \cup {"print"}
          /\ (InToolBranch /\ ~HasCity(function_call_json)) =>
               /\ Count("get_prompt:weather_response_prompt") = 0
               /\ "get_prompt:weather_response_prompt" \notin in_flight
               /\ pc \in {"call_tool", "get_response_prompt"} =>
                    outcome = "none"
               /\ pc \notin {"call_tool", "get_response_prompt"} =>
                    outcome \in {"KeyError", "TypeError", "call_tool"})
    /\ [][RaisesCityMissing =>
            /\ pc = "get_response_prompt"
            /\ Count("call_tool:weather_tool") = 1
            /\ weather_result \in ToolResults
            /\ UNCHANGED <<calls, tool_args, prompt_args, gen_prompts>>]_vars

\* the payload had a unit and no city: the tool has been called with it,
\* the turn has failed with KeyError and the error has been printed
C20_Witness ==
    /\ outcome = "KeyError"
    /\ tool_args = << JObj([unit |-> JStr("C")]) >>
    /\ weather_result = <<"Sunny">>
    /\ pc = "input"
    /\ out = [kind |-> "error", text |-> <<"\n", "Error: ", "KeyError">>]

=============================================================================
